---- MODULE Spec2Model ----
(***************************************************************************)
(* Job orchestration of the Folder Uploader desktop application            *)
(* (desktop_app_2.py): the worker processes run_upload_mp, their event     *)
(* queues, the tracked job list self.jobs, the poll step                   *)
(* monitor_all_outputs and the two cancel handlers.                        *)
(*                                                                         *)
(* The Tk handlers run on one thread and never overlap each other.  The    *)
(* workers are separate OS processes, so their steps interleave with a     *)
(* running monitor_all_outputs; the poll is therefore cut at the places    *)
(* where it observes a worker: the drain of a job's queue (lines 433-448), *)
(* the is_alive() test after it (449-450) and the filter with the          *)
(* rescheduling decision (452-461).  A put() is visible to get_nowait()    *)
(* at once, terminate() ends the worker at once and leaves its queue        *)
(* readable.                                                               *)
(***************************************************************************)
EXTENDS Integers, Sequences, FiniteSets, TLC

\* Bounds of the model.
MaxJobs == 2        \* launches over the application's lifetime
MaxLines == 1       \* lines the external upload process prints
MaxExitCode == 1    \* the external process exits with a code in 0..MaxExitCode
MaxLaunchJobs == 1  \* jobs accepted in SpecLaunch

JobIds == 1..MaxJobs
ExitCodes == 0..MaxExitCode

\* self.selected_folder at the n-th launch: the user picks a folder per upload
FolderOf(n) == IF n = 1 THEN "/a" ELSE IF n = 2 THEN "/b" ELSE "/" \o ToString(n)

VARIABLES
    jobs,           \* self.jobs: the tracked job dicts, in list order
    launched,       \* number of worker processes started so far (identity of a job dict)
    alive,          \* job['process'].is_alive()
    wpc,            \* position of the worker process inside run_upload_mp
    queue,          \* job['queue']: events put and not yet got
    sent,           \* every event the worker has put, in order
    ext,            \* the external upload process started by Popen
    returncode,     \* proc.returncode
    nread,          \* lines read from proc.stdout so far
    pollpc,         \* position of the UI thread inside monitor_all_outputs
    polli,          \* index of the for loop of monitor_all_outputs
    still_running,  \* local of monitor_all_outputs
    timers,         \* pending root.after(200, self.monitor_all_outputs) callbacks
    lastlog,        \* last line written by log_message
    args,           \* args['folder_path'] handed to each worker
    logged,         \* per job, the lines monitor_all_outputs has written to the log
    got_event,      \* this monitor_all_outputs invocation has consumed an event
    dialog,         \* text of the last messagebox.showerror
    cmd,            \* the argument vector built by run_upload_mp
    tkv,            \* the nine Tk variables that hold the settings
    file,           \* uploader_settings.json
    window          \* the Tk root window: "open" until root.destroy()

vars == <<jobs, launched, alive, wpc, queue, sent, ext, returncode, nread,
          pollpc, polli, still_running, timers, lastlog, args,
          logged, got_event, dialog, cmd, tkv, file, window>>

workerVars == <<alive, wpc, queue, sent, ext, returncode, nread>>
pollVars == <<pollpc, polli, still_running, timers, got_event>>
auxVars == <<dialog, cmd, tkv, file, window>>

----------------------------------------------------------------------------
\* Events and status strings

Event(t, m) == [type |-> t, msg |-> m]

Uploading == "Uploading..."
Finished == "Finished"
Stopped == "Stopped"
Succeeded == "Upload completed successfully!"
AllFinished == "=== All Upload Jobs Finished ==="

FailedMsg(rc) == "Upload failed with code " \o ToString(rc)

\* lines 61-64: the message of the 'status' event
StatusMsg(rc) == IF rc = 0 THEN Succeeded ELSE FailedMsg(rc)

Line(k) == "line " \o ToString(k)

\* lines 481, 504: terminate() ended the worker before run_upload_mp returned
Killed(id) == ~alive[id] /\ wpc[id] \notin {"none", "done"}

Put(id, ev) ==
    /\ queue' = [queue EXCEPT ![id] = Append(@, ev)]
    /\ sent' = [sent EXCEPT ![id] = Append(@, ev)]

----------------------------------------------------------------------------
\* Settings

\* lines 91-98, 311: the values the Tk variables are created with
Defaults ==
    [username |-> "", password |-> "", descriptor |-> "1",
     origin |-> "http://127.0.0.1:5000", avatar |-> "1",
     list_id |-> "90936600-d44b-4717-9b33-d685faf00616",
     warped |-> FALSE, name_as_userdata |-> FALSE, multi_face_policy |-> 1]

\* lines 551-561: the keys of the settings file
Keys == DOMAIN Defaults

\* line 574: uploader_settings.json does not exist
NoFile == [state |-> "missing", keys |-> {}, val |-> [k \in Keys |-> ""]]

----------------------------------------------------------------------------
InitBase ==
    /\ jobs = <<>>
    /\ launched = 0
    /\ alive = [i \in JobIds |-> FALSE]
    /\ wpc = [i \in JobIds |-> "none"]
    /\ queue = [i \in JobIds |-> <<>>]
    /\ sent = [i \in JobIds |-> <<>>]
    /\ ext = [i \in JobIds |-> "none"]
    /\ returncode = [i \in JobIds |-> 0]
    /\ nread = [i \in JobIds |-> 0]
    /\ pollpc = "idle"
    /\ polli = 0
    /\ still_running = FALSE
    /\ timers = 0
    /\ lastlog = ""
    /\ args = [i \in JobIds |-> ""]
    /\ logged = [i \in JobIds |-> <<>>]
    /\ got_event = FALSE
    /\ dialog = ""
    /\ cmd = <<>>
    /\ file = NoFile
    /\ window = "open"

\* lines 89-98, 311: the Tk variables hold their built-in values
Init == InitBase /\ tkv = Defaults

----------------------------------------------------------------------------
\* The worker process: run_upload_mp

\* line 40
WorkerPutStart(id) ==
    /\ alive[id] /\ wpc[id] = "put_start"
    /\ Put(id, Event("output", "Starting upload from: " \o args[id]))
    /\ wpc' = [wpc EXCEPT ![id] = "put_cmd"]
    /\ UNCHANGED <<jobs, launched, alive, ext, returncode, nread, pollVars, lastlog, args, logged, auxVars>>

\* line 41
WorkerPutCmd(id) ==
    /\ alive[id] /\ wpc[id] = "put_cmd"
    /\ Put(id, Event("output", "Command: cmd"))
    /\ wpc' = [wpc EXCEPT ![id] = "popen"]
    /\ UNCHANGED <<jobs, launched, alive, ext, returncode, nread, pollVars, lastlog, args, logged, auxVars>>

\* lines 48-55: Popen starts the external process
WorkerPopen(id) ==
    /\ alive[id] /\ wpc[id] = "popen"
    /\ ext' = [ext EXCEPT ![id] = "running"]
    /\ wpc' = [wpc EXCEPT ![id] = "read"]
    /\ UNCHANGED <<jobs, launched, alive, queue, sent, returncode, nread, pollVars, lastlog, args, logged, auxVars>>

\* lines 48-55, 65: Popen raises (script not runnable, folder gone)
WorkerPopenFails(id) ==
    /\ alive[id] /\ wpc[id] = "popen"
    /\ wpc' = [wpc EXCEPT ![id] = "except"]
    /\ UNCHANGED <<jobs, launched, alive, queue, sent, ext, returncode, nread, pollVars, lastlog, args, logged, auxVars>>

\* lines 57-59: one line of an external process that prints n lines is read
\* and forwarded
ReadLineUpTo(id, n) ==
    /\ alive[id] /\ wpc[id] = "read"
    /\ ext[id] = "running"
    /\ nread[id] < n
    /\ Put(id, Event("output", Line(nread[id] + 1)))
    /\ nread' = [nread EXCEPT ![id] = @ + 1]
    /\ UNCHANGED <<jobs, launched, alive, wpc, ext, returncode, pollVars, lastlog, args, logged, auxVars>>

WorkerReadLine(id) == ReadLineUpTo(id, MaxLines)

\* lines 57, 65: readline raises (undecodable output)
WorkerReadFails(id) ==
    /\ alive[id] /\ wpc[id] = "read"
    /\ ext[id] = "running"
    /\ wpc' = [wpc EXCEPT ![id] = "except"]
    /\ UNCHANGED <<jobs, launched, alive, queue, sent, ext, returncode, nread, pollVars, lastlog, args, logged, auxVars>>

\* the external process ends by itself
ExtExit(id) ==
    /\ ext[id] = "running"
    /\ ext' = [ext EXCEPT ![id] = "exited"]
    /\ UNCHANGED <<jobs, launched, alive, wpc, queue, sent, returncode, nread, pollVars, lastlog, args, logged, auxVars>>

\* lines 57, 60: readline returns '' and proc.wait() collects the exit code
WorkerWait(id) ==
    /\ alive[id] /\ wpc[id] = "read"
    /\ ext[id] = "exited"
    /\ \E code \in ExitCodes :
        returncode' = [returncode EXCEPT ![id] = code]
    /\ wpc' = [wpc EXCEPT ![id] = "status"]
    /\ UNCHANGED <<jobs, launched, alive, queue, sent, ext, nread, pollVars, lastlog, args, logged, auxVars>>

\* lines 61-64
WorkerPutStatus(id) ==
    /\ alive[id] /\ wpc[id] = "status"
    /\ Put(id, Event("status", StatusMsg(returncode[id])))
    /\ wpc' = [wpc EXCEPT ![id] = "finally"]
    /\ UNCHANGED <<jobs, launched, alive, ext, returncode, nread, pollVars, lastlog, args, logged, auxVars>>

\* the runner with the 'finished' put left out of the except path
WorkerPutErrorNoFinished(id) ==
    /\ alive[id] /\ wpc[id] = "except"
    /\ Put(id, Event("error", "Error running upload: e"))
    /\ wpc' = [wpc EXCEPT ![id] = "exit"]
    /\ UNCHANGED <<jobs, launched, alive, ext, returncode, nread, pollVars, lastlog, args, logged, auxVars>>

\* lines 65-66
WorkerPutError(id) ==
    /\ alive[id] /\ wpc[id] = "except"
    /\ Put(id, Event("error", "Error running upload: e"))
    /\ wpc' = [wpc EXCEPT ![id] = "finally"]
    /\ UNCHANGED <<jobs, launched, alive, ext, returncode, nread, pollVars, lastlog, args, logged, auxVars>>

\* lines 67-68
WorkerPutFinished(id) ==
    /\ alive[id] /\ wpc[id] = "finally"
    /\ Put(id, Event("finished", "None"))
    /\ wpc' = [wpc EXCEPT ![id] = "exit"]
    /\ UNCHANGED <<jobs, launched, alive, ext, returncode, nread, pollVars, lastlog, args, logged, auxVars>>

\* run_upload_mp returns: the worker process ends
WorkerExit(id) ==
    /\ alive[id] /\ wpc[id] = "exit"
    /\ alive' = [alive EXCEPT ![id] = FALSE]
    /\ wpc' = [wpc EXCEPT ![id] = "done"]
    /\ UNCHANGED <<jobs, launched, queue, sent, ext, returncode, nread, pollVars, lastlog, args, logged, auxVars>>

Worker(id) ==
    \/ WorkerPutStart(id)
    \/ WorkerPutCmd(id)
    \/ WorkerPopen(id)
    \/ WorkerPopenFails(id)
    \/ WorkerReadLine(id)
    \/ WorkerReadFails(id)
    \/ ExtExit(id)
    \/ WorkerWait(id)
    \/ WorkerPutStatus(id)
    \/ WorkerPutError(id)
    \/ WorkerPutFinished(id)
    \/ WorkerExit(id)

----------------------------------------------------------------------------
\* The UI thread: monitor_all_outputs

\* lines 438, 440, 444: what log_message receives for an event ("" for none)
LogOf(folder, ev) ==
    CASE ev.type = "output" -> "[" \o folder \o "] " \o ev.msg
      [] ev.type = "error" -> "ERROR [" \o folder \o "]: " \o ev.msg
      [] ev.type = "status" -> "STATUS [" \o folder \o "]: " \o ev.msg
      [] OTHER -> ""

\* lines 437-446: job['status'] after one event
ApplyEvent(status, ev) ==
    CASE ev.type = "status" -> ev.msg
      [] ev.type = "finished" -> Finished
      [] OTHER -> status

RECURSIVE DrainStatus(_, _)
\* lines 435-448: job['status'] after get_nowait() has returned every event of q
DrainStatus(status, q) ==
    IF q = <<>> THEN status
    ELSE DrainStatus(ApplyEvent(status, Head(q)), Tail(q))

RECURSIVE DrainLog(_, _, _)
\* lines 435-448: the last line logged while draining q
DrainLog(log, folder, q) ==
    IF q = <<>> THEN log
    ELSE DrainLog(IF LogOf(folder, Head(q)) = "" THEN log ELSE LogOf(folder, Head(q)),
                  folder, Tail(q))

RECURSIVE DrainLinesReversed(_, _)
\* the drain logging the newest event first
DrainLinesReversed(folder, q) ==
    IF q = <<>> THEN <<>>
    ELSE DrainLinesReversed(folder, Tail(q))
         \o (IF LogOf(folder, Head(q)) = "" THEN <<>> ELSE <<LogOf(folder, Head(q))>>)

RECURSIVE DrainLines(_, _)
\* lines 435-448: the lines logged while draining q, in the order logged
DrainLines(folder, q) ==
    IF q = <<>> THEN <<>>
    ELSE (IF LogOf(folder, Head(q)) = "" THEN <<>> ELSE <<LogOf(folder, Head(q))>>)
         \o DrainLines(folder, Tail(q))

\* the filter that removes nothing
KeepJobAlways(j) == j.id = j.id

\* the filter without its status test
KeepJobAliveOnly(j) == alive[j.id]

\* line 452: the filter that keeps a job in self.jobs
KeepJob(j) == alive[j.id] \/ j.status # Finished

\* lines 430-432: entry of monitor_all_outputs
StartPoll(js) ==
    /\ still_running' = FALSE
    /\ got_event' = FALSE
    /\ polli' = 1
    /\ pollpc' = IF js = <<>> THEN "prune" ELSE "drain"

\* root.after callback fires: monitor_all_outputs is entered from the event loop
TimerFire ==
    /\ pollpc = "idle"
    /\ timers > 0
    /\ timers' = timers - 1
    /\ StartPoll(jobs)
    /\ UNCHANGED <<jobs, launched, workerVars, lastlog, args, logged, auxVars>>

\* lines 433-448: every event now in the queue of the loop's job is consumed
PollDrain ==
    /\ pollpc = "drain"
    /\ LET j == jobs[polli] IN
        /\ jobs' = [jobs EXCEPT ![polli].status = DrainStatus(j.status, queue[j.id])]
        /\ lastlog' = DrainLog(lastlog, j.folder, queue[j.id])
        /\ logged' = [logged EXCEPT ![j.id] = @ \o DrainLines(j.folder, queue[j.id])]
        /\ got_event' = (got_event \/ queue[j.id] # <<>>)
        /\ queue' = [queue EXCEPT ![j.id] = <<>>]
    /\ pollpc' = "alive"
    /\ UNCHANGED <<launched, alive, wpc, sent, ext, returncode, nread,
                   polli, still_running, timers, args, auxVars>>

\* lines 449-450, and the loop's next iteration
PollAlive ==
    /\ pollpc = "alive"
    /\ still_running' = (still_running \/ alive[jobs[polli].id])
    /\ IF polli < Len(jobs)
       THEN polli' = polli + 1 /\ pollpc' = "drain"
       ELSE polli' = polli /\ pollpc' = "prune"
    /\ UNCHANGED <<jobs, launched, workerVars, timers, got_event, lastlog, args, logged, auxVars>>

\* lines 452-461: the filter, then reschedule or final reset
PollPrune ==
    /\ pollpc = "prune"
    /\ jobs' = SelectSeq(jobs, KeepJob)
    /\ IF still_running
       THEN timers' = timers + 1 /\ lastlog' = lastlog
       ELSE timers' = timers /\ lastlog' = AllFinished
    /\ pollpc' = "idle"
    /\ polli' = 0
    /\ still_running' = FALSE
    /\ got_event' = FALSE
    /\ UNCHANGED <<launched, workerVars, args, logged, auxVars>>

----------------------------------------------------------------------------
\* The UI thread: launch and cancel handlers

\* the new job inserted at the head of self.jobs
LaunchAtFront ==
    /\ pollpc = "idle"
    /\ launched < MaxJobs
    /\ LET id == launched + 1
           f == FolderOf(id) IN
        /\ launched' = id
        /\ args' = [args EXCEPT ![id] = f]
        /\ alive' = [alive EXCEPT ![id] = TRUE]
        /\ wpc' = [wpc EXCEPT ![id] = "put_start"]
        /\ jobs' = <<[id |-> id, folder |-> f, status |-> Uploading]>> \o jobs
        /\ StartPoll(jobs')
    /\ UNCHANGED <<queue, sent, ext, returncode, nread, timers, lastlog, logged, auxVars>>

\* lines 339-386: _launch_upload_job with a valid configuration; it ends by
\* calling monitor_all_outputs
Launch ==
    /\ pollpc = "idle"
    /\ launched < MaxJobs
    /\ LET id == launched + 1
           f == FolderOf(id) IN
        /\ launched' = id
        /\ args' = [args EXCEPT ![id] = f]
        /\ alive' = [alive EXCEPT ![id] = TRUE]
        /\ wpc' = [wpc EXCEPT ![id] = "put_start"]
        /\ jobs' = Append(jobs, [id |-> id, folder |-> f, status |-> Uploading])
        /\ StartPoll(jobs')
    /\ UNCHANGED <<queue, sent, ext, returncode, nread, timers, lastlog, logged, auxVars>>

\* what _launch_upload_job finds when it is called: the text of
\* self.selected_folder, whether that path exists, whether
\* find_uploader_script() returns a path
Configs == [folder : {"", "set"}, exists : BOOLEAN, script : BOOLEAN]

ValidConfig(cfg) == cfg.folder # "" /\ cfg.exists /\ cfg.script

\* the checks without the os.path.exists test
ConfigErrorNoExists(cfg) ==
    IF cfg.folder = "" THEN "Please select a folder first!"
    ELSE IF ~cfg.script THEN "folder_uploader.py not found!"
    ELSE ""

\* lines 341-350: the text of the error box, "" when the launch goes on
ConfigError(cfg) ==
    IF cfg.folder = "" THEN "Please select a folder first!"
    ELSE IF ~cfg.exists THEN "Selected folder does not exist!"
    ELSE IF ~cfg.script THEN "folder_uploader.py not found!"
    ELSE ""

\* lines 339-386: _launch_upload_job, with the configuration it finds
LaunchJob(cfg) ==
    IF ConfigError(cfg) # ""
    THEN /\ pollpc = "idle"
         /\ dialog' = ConfigError(cfg)
         /\ UNCHANGED <<jobs, launched, workerVars, pollVars, lastlog, args, logged,
                        cmd, tkv, file, window>>
    ELSE Launch

\* cancelling that marks the job as finished
CancelStatusFinished(j) == IF alive[j.id] THEN Finished ELSE j.status

\* cancelling without the is_alive() test
CancelStatusUnguarded(j) == Stopped

\* lines 502-505 and 479-483: the effect of cancelling one job on its status
CancelStatus(j) == IF alive[j.id] THEN Stopped ELSE j.status

\* the button wired to terminate every tracked job
StopSelectedJobStopsAll(sel) ==
    /\ pollpc = "idle"
    /\ sel \in 1..Len(jobs)
    /\ jobs' = [i \in 1..Len(jobs) |-> [jobs[i] EXCEPT !.status = CancelStatus(jobs[i])]]
    /\ alive' = [id \in JobIds |-> FALSE]
    /\ lastlog' = "Stopped job for folder: " \o jobs[sel].folder
    /\ UNCHANGED <<launched, wpc, queue, sent, ext, returncode, nread, pollVars, args, logged, auxVars>>

\* lines 493-511: stop_selected_job with the listbox selection sel
\* (0 is no selection; an index past the list is a stale selection)
StopSelectedJob(sel) ==
    /\ pollpc = "idle"
    /\ IF sel = 0 \/ sel > Len(jobs)
       THEN UNCHANGED <<jobs, alive, lastlog>>
       ELSE LET j == jobs[sel] IN
            /\ jobs' = [jobs EXCEPT ![sel].status = CancelStatus(j)]
            /\ alive' = [alive EXCEPT ![j.id] = FALSE]
            /\ lastlog' = IF alive[j.id]
                           THEN "Stopped job for folder: " \o j.folder
                           ELSE "Job already finished: " \o j.folder
    /\ UNCHANGED <<launched, wpc, queue, sent, ext, returncode, nread, pollVars, args, logged, auxVars>>

\* the counter incremented for every job of the list
StoppedCountAll(js) == Len(js)

\* lines 477-483: the number stop_upload counts in stopped
StoppedCount(js) == Cardinality({i \in 1..Len(js) : alive[js[i].id]})

\* line 521: the number update_joblist_ui shows for the job at list position i
JobNumber(i) == i

\* lines 475-491: stop_upload
StopUpload ==
    /\ pollpc = "idle"
    /\ LET stopped == StoppedCount(jobs) IN
        /\ jobs' = [i \in 1..Len(jobs) |-> [jobs[i] EXCEPT !.status = CancelStatus(jobs[i])]]
        /\ alive' = [id \in JobIds |->
                        alive[id] /\ ~(\E i \in 1..Len(jobs) : jobs[i].id = id)]
        /\ lastlog' = IF stopped > 0
                       THEN "Stopped " \o ToString(stopped) \o " running upload job(s)"
                       ELSE "No running jobs to stop."
    /\ UNCHANGED <<launched, wpc, queue, sent, ext, returncode, nread, pollVars, args, logged, auxVars>>

----------------------------------------------------------------------------
Next ==
    \/ Launch
    \/ \E id \in JobIds : Worker(id)
    \/ TimerFire
    \/ PollDrain
    \/ PollAlive
    \/ PollPrune
    \/ \E sel \in 0..(MaxJobs + 1) : StopSelectedJob(sel)
    \/ StopUpload

Spec == Init /\ [][Next]_vars

\* The application when the launch buttons are pressed with any configuration
\* and no job is cancelled.
NextLaunch ==
    \/ \E cfg \in Configs :
          (ValidConfig(cfg) => launched < MaxLaunchJobs) /\ LaunchJob(cfg)
    \/ \E id \in JobIds : Worker(id)
    \/ TimerFire
    \/ PollDrain
    \/ PollAlive
    \/ PollPrune

SpecLaunch == Init /\ [][NextLaunch]_vars

----------------------------------------------------------------------------
\* Vocabulary of the properties

JobIndex == 1..Len(jobs)

Tracked(id) == \E i \in JobIndex : jobs[i].id = id

\* the events of a job that get_nowait() has already returned
Consumed(id) == SubSeq(sent[id], 1, Len(sent[id]) - Len(queue[id]))

Has(s, t) == \E n \in 1..Len(s) : s[n].type = t

Count(s, t) == Cardinality({n \in 1..Len(s) : s[n].type = t})

\* the terminal status values of a job: Succeeded, Failed(code), Stopped
\* (no code path stores an Error status)
TerminalStatus(st) == st \in {Succeeded, Stopped} \cup {FailedMsg(c) : c \in ExitCodes}

\* no monitor_all_outputs is running and none is scheduled
PollStopped == pollpc = "idle" /\ timers = 0

----------------------------------------------------------------------------
\* C1: a job's status is monotonic: once it holds a terminal value (Succeeded,
\* Failed, Stopped) no later step changes it while the job is tracked.
C1_StatusMonotonic ==
    [][\A i \in JobIndex : \A k \in 1..Len(jobs') :
          (jobs'[k].id = jobs[i].id /\ TerminalStatus(jobs[i].status))
              => jobs'[k].status = jobs[i].status]_vars

\* C2: a job that has left the tracked list had its 'finished' event consumed,
\* its worker is not alive and its queue is empty.
C2_PrunedOnlyWhenDrained ==
    \A id \in 1..launched :
        ~Tracked(id) =>
            /\ Has(Consumed(id), "finished")
            /\ ~alive[id]
            /\ queue[id] = <<>>

C2_Witness == \E id \in 1..launched : ~Tracked(id) /\ pollpc = "idle"

\* C3: the poll loop never stops rescheduling while an event of a tracked job
\* is still in its queue.
C3_NoEventLeftBehind ==
    PollStopped => \A i \in JobIndex : queue[jobs[i].id] = <<>>

\* C4: a job that was cancelled while running has status Stopped, and keeps it.
C4_CancelledStaysStopped ==
    \A i \in JobIndex : Killed(jobs[i].id) => jobs[i].status = Stopped

\* C5: cancelling a job whose process is no longer alive changes nothing but
\* the log: stop_selected_job leaves the list, the queues and the processes as
\* they were and logs "Job already finished"; stop_upload leaves every such
\* job, its queue and the list's membership as they were.
C5_CancelTerminalNoOp ==
    [][/\ \A sel \in JobIndex :
            (StopSelectedJob(sel) /\ ~alive[jobs[sel].id]) =>
                /\ jobs' = jobs
                /\ <<queue, alive, wpc, ext, timers>>' = <<queue, alive, wpc, ext, timers>>
                /\ lastlog' = "Job already finished: " \o jobs[sel].folder
       /\ StopUpload =>
            /\ Len(jobs') = Len(jobs)
            /\ <<queue, wpc, ext, timers>>' = <<queue, wpc, ext, timers>>
            /\ \A i \in JobIndex :
                  ~alive[jobs[i].id] => jobs'[i] = jobs[i] /\ ~alive'[jobs[i].id]
            /\ (\A i \in JobIndex : ~alive[jobs[i].id]) =>
                  lastlog' = "No running jobs to stop."]_vars

C5_Witness ==
    \E i \in JobIndex :
        /\ ~alive[jobs[i].id]
        /\ lastlog = "Job already finished: " \o jobs[i].folder

\* C6: the runner of a cancelled job has put its 'finished' event.
C6_CancelledRunnerEmitsFinished ==
    \A id \in 1..launched : Killed(id) => Has(sent[id], "finished")

\* C7: a runner that returned put exactly one 'finished' event, as its last
\* event, and exactly one terminal report right before it: a 'status' event
\* carrying the exit code's message when the external process exited, an
\* 'error' event when it could not be started.
C7_OneReportThenFinished ==
    \A id \in 1..launched :
        wpc[id] = "done" =>
            LET s == sent[id]
                n == Len(s) IN
            /\ n >= 2
            /\ s[n].type = "finished"
            /\ Count(s, "finished") = 1
            /\ Count(s, "status") + Count(s, "error") = 1
            /\ s[n - 1].type \in {"status", "error"}
            /\ s[n - 1].type = "status" =>
                  ext[id] = "exited" /\ s[n - 1].msg = StatusMsg(returncode[id])
            /\ ext[id] = "none" => s[n - 1].type = "error"

C7_Witness ==
    \E id, id2 \in 1..launched :
        /\ wpc[id] = "done" /\ Has(sent[id], "status")
        /\ wpc[id2] = "done" /\ Has(sent[id2], "error")

\* C8: an uncancelled job whose external process exited and whose queue has
\* been drained through 'finished' has the status of its exit code.
C8_DrainedStatusReflectsExitCode ==
    \A i \in JobIndex :
        LET id == jobs[i].id IN
        (/\ ~Killed(id)
         /\ Has(sent[id], "status")
         /\ Has(Consumed(id), "finished")
         /\ queue[id] = <<>>)
            => jobs[i].status = StatusMsg(returncode[id])

\* C9: a job whose external process exited and whose runner returned does not
\* stay tracked once polling has stopped (it is pruned without a further
\* launch or user action).
C9_ExitedJobPruned ==
    PollStopped =>
        \A i \in JobIndex :
            ~(wpc[jobs[i].id] = "done" /\ Has(sent[jobs[i].id], "status"))

\* C10: when monitor_all_outputs takes the branch that does not reschedule,
\* the list it leaves is empty and no job is Running.
C10_FinalResetOnlyWhenEmpty ==
    (pollpc = "prune" /\ ~still_running) =>
        /\ SelectSeq(jobs, KeepJob) = <<>>
        /\ \A i \in JobIndex : jobs[i].status # Uploading

----------------------------------------------------------------------------
\* C11: a job keeps the number it is shown with for as long as it is tracked
\* (job ids are unique and never reused).
C11_JobIdStable ==
    [][\A i \in JobIndex : \A k \in 1..Len(jobs') :
          jobs'[k].id = jobs[i].id => JobNumber(k) = JobNumber(i)]_vars

\* C12: stop_upload stops exactly the jobs whose process is alive, leaves the
\* others as they were, and reports the number of jobs that were alive before
\* and are Stopped after.
C12_StopAllCountsRunning ==
    [][StopUpload =>
        LET n == Cardinality({i \in JobIndex :
                    alive[jobs[i].id] /\ jobs'[i].status = Stopped}) IN
        /\ Len(jobs') = Len(jobs)
        /\ \A i \in JobIndex :
              /\ alive[jobs[i].id] =>
                    jobs'[i].status = Stopped /\ ~alive'[jobs[i].id]
              /\ ~alive[jobs[i].id] =>
                    jobs'[i] = jobs[i] /\ ~alive'[jobs[i].id]
        /\ n = Cardinality({i \in JobIndex : alive[jobs[i].id]})
        /\ lastlog' = IF n > 0
                       THEN "Stopped " \o ToString(n) \o " running upload job(s)"
                       ELSE "No running jobs to stop."]_vars

C12_Witness ==
    /\ lastlog = "Stopped 1 running upload job(s)"
    /\ \E i, k \in JobIndex :
        /\ Killed(jobs[i].id) /\ jobs[i].status = Stopped
        /\ ~Killed(jobs[k].id) /\ ~alive[jobs[k].id] /\ jobs[k].status # Stopped

\* every job other than id has the status, list position, process, queue and
\* logged lines it had before the step
OthersSame(id) ==
    /\ Len(jobs') = Len(jobs)
    /\ \A i \in JobIndex : jobs[i].id # id => jobs'[i] = jobs[i]
    /\ \A o \in JobIds \ {id} :
          /\ alive'[o] = alive[o]
          /\ queue'[o] = queue[o]
          /\ wpc'[o] = wpc[o]
          /\ logged'[o] = logged[o]

\* C13: cancelling one job, draining one job's events and every step of one
\* job's worker leave the other jobs unchanged, and polling does not stop
\* while the process of a tracked job is alive.
C13_Isolation ==
    [][/\ \A sel \in JobIndex : StopSelectedJob(sel) => OthersSame(jobs[sel].id)
       /\ PollDrain => OthersSame(jobs[polli].id)
       /\ \A id \in JobIds : Worker(id) => OthersSame(id)
       /\ (\E i \in 1..Len(jobs') : alive'[jobs'[i].id]) => ~PollStopped']_vars

C13_Witness ==
    \E i, k \in JobIndex :
        /\ Killed(jobs[i].id) /\ jobs[i].status = Stopped
        /\ lastlog = "Stopped job for folder: " \o jobs[i].folder
        /\ alive[jobs[k].id] /\ jobs[k].status = Uploading /\ timers > 0

\* C18: the tracked jobs are listed in launch order.
C18_ListInLaunchOrder ==
    \A i, k \in JobIndex : i < k => jobs[i].id < jobs[k].id

C18_Witness ==
    /\ Len(jobs) = 2
    /\ jobs[1].status = Stopped
    /\ Has(Consumed(jobs[2].id), "status")

----------------------------------------------------------------------------
\* C14: a launch with an empty folder, a folder that does not exist or no
\* uploader script starts no worker, creates no queue, leaves the job list
\* as it was and schedules no poll.
C14_InvalidLaunchRejected ==
    [][\A cfg \in Configs :
          (LaunchJob(cfg) /\ ~ValidConfig(cfg)) =>
              UNCHANGED <<jobs, launched, alive, wpc, queue, sent, ext,
                          pollpc, polli, timers>>]_vars

C14_Witness ==
    /\ dialog = "Selected folder does not exist!"
    /\ Len(jobs) = 1
    /\ launched = 1

----------------------------------------------------------------------------
\* the line the log shows for event e of job id
ExpectedLine(id, e) ==
    CASE e.type = "output" -> "[" \o FolderOf(id) \o "] " \o e.msg
      [] e.type = "error" -> "ERROR [" \o FolderOf(id) \o "]: " \o e.msg
      [] e.type = "status" -> "STATUS [" \o FolderOf(id) \o "]: " \o e.msg

Loggable(e) == e.type # "finished"

C17_PollWithoutEventsIsIdentity ==
    [][(PollPrune /\ ~got_event) => jobs' = jobs]_vars

\* C17 amended: a monitor_all_outputs invocation that found every queue empty
\* changes no status and keeps the order of the jobs; it removes exactly the
\* jobs whose status is already 'Finished' and whose process is not alive.
C17_PollWithoutEventsOnlyPrunes ==
    [][/\ (PollDrain /\ queue[jobs[polli].id] = <<>>) => jobs' = jobs
       /\ (PollPrune /\ ~got_event) =>
            /\ \A k \in 1..Len(jobs') : \E i \in JobIndex : jobs'[k] = jobs[i]
            /\ \A k1, k2 \in 1..Len(jobs') : k1 < k2 => jobs'[k1].id < jobs'[k2].id
            /\ \A i \in JobIndex :
                  (jobs[i].status = Finished /\ ~alive[jobs[i].id])
                      <=> ~(\E k \in 1..Len(jobs') : jobs'[k].id = jobs[i].id)]_vars

C17_Witness ==
    /\ pollpc = "prune" /\ ~got_event
    /\ Len(jobs) = 2
    /\ jobs[1].status = Finished /\ ~alive[jobs[1].id]
    /\ jobs[2].status = Uploading

----------------------------------------------------------------------------
\* The two-job scenario: the upload process of /a prints 3 lines and exits
\* with 0, the upload process of /b prints 1 line and exits with 1; Popen
\* succeeds, the output decodes and nobody presses a stop button.
ScenLines == <<3, 1>>
ScenCodes == <<0, 1>>
ScenJobs == 1..Len(ScenLines)

ScenLaunch == launched < Len(ScenLines) /\ Launch

ScenWorker(id) ==
    \/ WorkerPutStart(id)
    \/ WorkerPutCmd(id)
    \/ WorkerPopen(id)
    \/ ReadLineUpTo(id, ScenLines[id])
    \/ (nread[id] = ScenLines[id] /\ ExtExit(id))
    \/ (WorkerWait(id) /\ returncode'[id] = ScenCodes[id])
    \/ WorkerPutStatus(id)
    \/ WorkerPutFinished(id)
    \/ WorkerExit(id)

NextScenario ==
    \/ ScenLaunch
    \/ \E id \in ScenJobs : ScenWorker(id)
    \/ TimerFire
    \/ PollDrain
    \/ PollAlive
    \/ PollPrune

SpecScenario == Init /\ [][NextScenario]_vars

\* both runners have ended and the poll has consumed everything they put
FullyDrained ==
    /\ launched = Len(ScenLines)
    /\ \A id \in ScenJobs :
          ~alive[id] /\ queue[id] = <<>> /\ Has(Consumed(id), "finished")

\* the lines of the upload process of job id found in the log
ProcessLines(id) ==
    {n \in 1..Len(logged[id]) :
        \E k \in 1..ScenLines[id] : logged[id][n] = "[" \o FolderOf(id) \o "] " \o Line(k)}

\* C16: in the two-job scenario, once both queues are fully drained, 3 lines
\* of the process of /a and 1 line of the process of /b are recorded, the
\* job list shows /a as succeeded and /b as failed with code 1, and no
\* process is running.
C16_TwoJobScenario ==
    FullyDrained =>
        /\ Cardinality(ProcessLines(1)) = 3
        /\ Cardinality(ProcessLines(2)) = 1
        /\ \A i \in JobIndex :
              /\ jobs[i].id = 1 => jobs[i].status = Succeeded
              /\ jobs[i].id = 2 => jobs[i].status = FailedMsg(1)
        /\ \A id \in ScenJobs : ~alive[id]

----------------------------------------------------------------------------
\* The argument vector of the upload command

\* lines 24-37: the options in the order in which cmd lists them
Flags ==
    << "--login", "--password", "--source", "--warped", "--name_as_userdata",
       "--descriptor", "--origin", "--avatar", "--list_id",
       "--multi_face_policy", "--basic_attr", "--score_threshold",
       "--list_linked" >>

\* values the user can have in the nine Tk variables; a text field takes any
\* text, the text of an option included
FieldChoices ==
    [username |-> {"", "u"}, password |-> {"", "--login"},
     descriptor |-> {"1"}, origin |-> {Defaults.origin},
     avatar |-> {"1"}, list_id |-> {Defaults.list_id, "l2"},
     warped |-> BOOLEAN, name_as_userdata |-> BOOLEAN,
     multi_face_policy |-> {1, 2}]

FieldValues ==
    [username : FieldChoices.username, password : FieldChoices.password,
     descriptor : FieldChoices.descriptor, origin : FieldChoices.origin,
     avatar : FieldChoices.avatar, list_id : FieldChoices.list_id,
     warped : FieldChoices.warped,
     name_as_userdata : FieldChoices.name_as_userdata,
     multi_face_policy : FieldChoices.multi_face_policy]

\* lines 357-370: the args dict of a launch on folder
ArgsOf(t, folder) ==
    [script_path |-> "folder_uploader.py", folder_path |-> folder,
     username |-> t.username, password |-> t.password, source |-> folder,
     descriptor |-> t.descriptor, origin |-> t.origin, avatar |-> t.avatar,
     list_id |-> t.list_id, warped |-> t.warped,
     name_as_userdata |-> t.name_as_userdata,
     multi_face_policy |-> t.multi_face_policy]

\* the booleans rendered by str()
BitAsStr(b) == IF b THEN "True" ELSE "False"

\* lines 27-28: "1" if ... else "0"
Bit(b) == IF b THEN "1" ELSE "0"

\* lines 22-38
BuildCmd(a) ==
    << "python", a.script_path,
       "--login", a.username,
       "--password", a.password,
       "--source", a.source,
       "--warped", Bit(a.warped),
       "--name_as_userdata", Bit(a.name_as_userdata),
       "--descriptor", a.descriptor,
       "--origin", a.origin,
       "--avatar", a.avatar,
       "--list_id", a.list_id,
       "--multi_face_policy", ToString(a.multi_face_policy),
       "--basic_attr", "1",
       "--score_threshold", "0.0",
       "--list_linked", "1" >>

Folders == {FolderOf(i) : i \in JobIds}

\* lines 22-38: the runner of a launch on folder builds its command
BuildArgs(folder) ==
    /\ cmd' = BuildCmd(ArgsOf(tkv, folder))
    /\ UNCHANGED <<jobs, launched, workerVars, pollVars, lastlog, args, logged,
                   dialog, tkv, file, window>>

InitArgs == InitBase /\ tkv \in FieldValues

NextArgs == \E folder \in Folders : BuildArgs(folder)

SpecArgs == InitArgs /\ [][NextArgs]_vars

\* the value the claim expects after option f
ExpectedValue(a, f) ==
    CASE f = "--login" -> a.username
      [] f = "--password" -> a.password
      [] f = "--source" -> a.source
      [] f = "--warped" -> (IF a.warped THEN "1" ELSE "0")
      [] f = "--name_as_userdata" -> (IF a.name_as_userdata THEN "1" ELSE "0")
      [] f = "--descriptor" -> a.descriptor
      [] f = "--origin" -> a.origin
      [] f = "--avatar" -> a.avatar
      [] f = "--list_id" -> a.list_id
      [] f = "--multi_face_policy" -> ToString(a.multi_face_policy)
      [] f = "--basic_attr" -> "1"
      [] f = "--score_threshold" -> "0.0"
      [] f = "--list_linked" -> "1"

Occurrences(f) == {i \in 1..Len(cmd) : cmd[i] = f}

\* C19 as stated: each of the thirteen options occurs exactly once in the
\* argument vector and is immediately followed by its value.
C19_EachFlagExactlyOnce ==
    cmd # <<>> =>
        \E folder \in Folders :
            \A n \in 1..Len(Flags) :
                /\ Cardinality(Occurrences(Flags[n])) = 1
                /\ \A i \in Occurrences(Flags[n]) :
                      i < Len(cmd) /\ cmd[i + 1] = ExpectedValue(ArgsOf(tkv, folder), Flags[n])

\* C19 amended: after the interpreter and the script, the argument vector is
\* the thirteen options in order, each at its own option position and
\* immediately followed by its value, booleans as "1" or "0"; the text of an
\* option occurs anywhere else only as the value of a text field.
C19_FlagsAtOptionPositions ==
    cmd # <<>> =>
        \E folder \in Folders :
            /\ Len(cmd) = 2 + 2 * Len(Flags)
            /\ \A n \in 1..Len(Flags) :
                  /\ cmd[2 * n + 1] = Flags[n]
                  /\ cmd[2 * n + 2] = ExpectedValue(ArgsOf(tkv, folder), Flags[n])
                  /\ \A i \in Occurrences(Flags[n]) \ {2 * n + 1} :
                        /\ i > 2 /\ i % 2 = 0
                        /\ cmd[i - 1] \in {"--login", "--password", "--descriptor",
                                           "--origin", "--avatar", "--list_id", "--source"}
            /\ cmd[2 * 4 + 2] \in {"0", "1"} /\ (cmd[2 * 4 + 2] = "1" <=> tkv.warped)
            /\ cmd[2 * 5 + 2] \in {"0", "1"} /\ (cmd[2 * 5 + 2] = "1" <=> tkv.name_as_userdata)

C19_Witness ==
    /\ cmd # <<>>
    /\ tkv.password = "--login"
    /\ tkv.warped /\ ~tkv.name_as_userdata
    /\ cmd[2 * 3 + 2] = "/b"

----------------------------------------------------------------------------
\* The settings file

\* json.dump of a str, of a bool and of an int
JsonStr(v) == "\"" \o v \o "\""
JsonBool(v) == IF v THEN "true" ELSE "false"
JsonInt(v) == ToString(v)

\* lines 551-561, 565: the Tk variable of key k decides the type that is dumped
JsonOf(k, v) ==
    IF k \in {"warped", "name_as_userdata"} THEN JsonBool(v)
    ELSE IF k = "multi_face_policy" THEN JsonInt(v)
    ELSE JsonStr(v)

\* line 576: json.load gives back the value that the text denotes
ParseJson(k, txt) == CHOOSE v \in FieldChoices[k] : JsonOf(k, v) = txt

\* lines 551-565: the object that save_settings writes
Dump(t) == [k \in Keys |-> JsonOf(k, t[k])]

Saved(t) == [state |-> "saved", keys |-> Keys, val |-> Dump(t)]

\* line 574 false, line 576 raising
Corrupt == [state |-> "corrupt", keys |-> {}, val |-> [k \in Keys |-> ""]]

\* load_settings reading multi_face_policy as 1 whatever the file says
LoadSettingsPolicyOne(t, f) ==
    IF f.state # "saved" THEN t
    ELSE [k \in Keys |->
            IF k = "multi_face_policy" THEN 1
            ELSE IF k \in f.keys THEN ParseJson(k, f.val[k])
            ELSE t[k]]

\* lines 573-585: the Tk variables after load_settings, from their values t
LoadSettings(t, f) ==
    IF f.state # "saved" THEN t
    ELSE [k \in Keys |->
            IF k \in f.keys THEN ParseJson(k, f.val[k])
            ELSE IF k = "multi_face_policy" THEN 1
            ELSE t[k]]

\* lines 586, 588: what load_settings logs
LoadLog(f) ==
    CASE f.state = "missing" -> ""
      [] f.state = "corrupt" -> "Could not load settings: e"
      [] f.state = "saved" -> "Settings for Gelecek Folder Uploader loaded successfully"

settingsOther == <<jobs, launched, workerVars, pollVars, args, logged, cmd, window>>

\* lines 265, 313, 319-321: the user edits a field
EditField ==
    /\ \E k \in Keys : \E v \in FieldChoices[k] : tkv' = [tkv EXCEPT ![k] = v]
    /\ UNCHANGED <<settingsOther, lastlog, dialog, file>>

\* lines 281-295: the list fetch thread sets list_id to the first list
FetchLists ==
    /\ \E v \in FieldChoices.list_id : tkv' = [tkv EXCEPT !.list_id = v]
    /\ UNCHANGED <<settingsOther, lastlog, dialog, file>>

\* lines 549-566
SaveSettings ==
    /\ file' = Saved(tkv)
    /\ lastlog' = "Settings saved successfully"
    /\ dialog' = "Settings for Gelecek Folder Uploader saved successfully!"
    /\ UNCHANGED <<settingsOther, tkv>>

\* lines 563, 567-569: open() fails and the file is as before, or the write
\* fails after open() has truncated the file
SaveFails ==
    /\ file' \in {file, Corrupt}
    /\ lastlog' = "Error saving settings: e"
    /\ dialog' = "Failed to save settings: e"
    /\ UNCHANGED <<settingsOther, tkv>>

\* lines 89-98, 110, 311: the application, with no job tracked, is closed and
\* started again
Restart ==
    /\ jobs = <<>>
    /\ tkv' = LoadSettings(Defaults, file)
    /\ lastlog' = LoadLog(file)
    /\ dialog' = ""
    /\ UNCHANGED <<settingsOther, file>>

\* the user removes uploader_settings.json
FileRemoved ==
    /\ file.state # "missing"
    /\ file' = NoFile
    /\ UNCHANGED <<settingsOther, lastlog, dialog, tkv>>

NextSettings ==
    \/ EditField
    \/ FetchLists
    \/ SaveSettings
    \/ SaveFails
    \/ Restart
    \/ FileRemoved

SpecSettings == Init /\ [][NextSettings]_vars

----------------------------------------------------------------------------
\* C21: a job whose 'error' event the poll has consumed has the status Error
\* and an error-tagged line in its log.
C21_ErrorSetsStatus ==
    \A i \in JobIndex :
        Has(Consumed(jobs[i].id), "error") =>
            /\ jobs[i].status = "Error"
            /\ \E n \in 1..Len(logged[jobs[i].id]) :
                  logged[jobs[i].id][n]
                      = "ERROR [" \o jobs[i].folder \o "]: Error running upload: e"

\* C22: a launched job whose runner has put no 'finished' event is in the
\* tracked list, whatever has become of its process; so a job whose process
\* died before its finally block is never removed.
C22_UnfinishedStaysTracked ==
    \A id \in 1..launched : ~Has(sent[id], "finished") => Tracked(id)

C22_Witness ==
    \E id, o \in 1..launched :
        /\ Killed(id) /\ ~Has(sent[id], "finished") /\ Tracked(id)
        /\ ~Tracked(o)
        /\ PollStopped

\* C24: at most one root.after(200, monitor_all_outputs) callback is pending.
C24_AtMostOneTimer == timers <= 1

----------------------------------------------------------------------------
\* Closing the window

\* lines 101, 468: self.upload_process is None from construction on; no
\* statement assigns it anything else
upload_process == "None"

\* lines 590-597: on_closing; confirm is the answer to askokcancel
OnClosing(confirm) ==
    /\ pollpc = "idle"
    /\ window = "open"
    /\ IF upload_process # "None"
       THEN /\ dialog' = "Upload is in progress. Stop upload and quit?"
            /\ IF confirm
               THEN /\ jobs' = [i \in 1..Len(jobs) |->
                                  [jobs[i] EXCEPT !.status = CancelStatus(jobs[i])]]
                    /\ alive' = [id \in JobIds |-> alive[id] /\ ~Tracked(id)]
                    /\ lastlog' = IF StoppedCount(jobs) > 0
                                   THEN "Stopped " \o ToString(StoppedCount(jobs))
                                        \o " running upload job(s)"
                                   ELSE "No running jobs to stop."
                    /\ window' = "destroyed"
               ELSE UNCHANGED <<jobs, alive, lastlog, window>>
       ELSE /\ window' = "destroyed"
            /\ UNCHANGED <<jobs, alive, lastlog, dialog>>
    /\ UNCHANGED <<launched, wpc, queue, sent, ext, returncode, nread, pollVars,
                   args, logged, cmd, tkv, file>>

\* The application with its window: the handlers of the UI thread run only
\* while the window is open, the worker processes run on after it is closed.
NextClose ==
    \/ window = "open" /\ launched < MaxLaunchJobs /\ Launch
    \/ \E id \in JobIds : Worker(id)
    \/ window = "open" /\ TimerFire
    \/ PollDrain
    \/ PollAlive
    \/ PollPrune
    \/ window = "open" /\ (\E sel \in 0..(MaxJobs + 1) : StopSelectedJob(sel))
    \/ window = "open" /\ StopUpload
    \/ \E confirm \in BOOLEAN : OnClosing(confirm)

SpecClose == Init /\ [][NextClose]_vars

\* C23: once the window has been closed, no worker process is alive.
C23_NoWorkerAfterClose ==
    window = "destroyed" => \A id \in JobIds : ~alive[id]

====
